---- MODULE Spec2Model ----
(***************************************************************************)
(* CCNotify (src/src/ccnotify/notify.py): the hook handler that resolves a *)
(* project name for a session, classifies the hook event, resolves a TTS   *)
(* sound file and emits a notification.  Strings are TLA+ strings; the     *)
(* persisted JSON documents are tagged records.                            *)
(***************************************************************************)
EXTENDS Integers, Sequences, FiniteSets, TLC

VARIABLES
    cacheFile,     \* CACHE_FILE: the persisted session -> project cache document
    replFile,      \* REPLACEMENTS_FILE: the persisted replacement document
    projectsDir,   \* PROJECTS_DIR: session id -> encoded folder holding <sid>.jsonl
    soundsDir,     \* SOUNDS_DIR: file name -> what the file holds
    tts,           \* USE_TTS and the configured provider of this installation
    now,           \* the reading of time.time()
    pre,           \* the persisted state the last operation started from
    out,            \* what the last operation returned and which calls it made
    procs          \* the hook processes that overlap: where each is in handle_hook, and its locals

vars == <<cacheFile, replFile, projectsDir, soundsDir, tts, now, pre, out, procs>>

----------------------------------------------------------------------------
(* Bounds of the model *)

\* the longest folder name decode_project_folder_name is applied to
MaxFolderLen == 4

\* how many seconds around the expiry boundary the clock is sampled
ClockSlack == 1

\* the most segments of a decoded project path the name is derived from
MaxSegments == 4

----------------------------------------------------------------------------
(* str methods used by the code *)

\* the value of a local variable's scope: Bind([x \in {v} |-> e]) is e with
\* x standing for the value of v, which is computed once
Bind(scope) == scope[CHOOSE x \in DOMAIN scope : TRUE]

EmptyMap == [k \in {} |-> k]

StartsWith(s, p) == Len(p) <= Len(s) /\ SubSeq(s, 1, Len(p)) = p

Contains(s, p) == \E i \in 1..(Len(s) - Len(p) + 1) : SubSeq(s, i, i + Len(p) - 1) = p

FirstIndex(s, p) ==
    IF Contains(s, p)
    THEN CHOOSE i \in 1..(Len(s) - Len(p) + 1) :
            /\ SubSeq(s, i, i + Len(p) - 1) = p
            /\ \A j \in 1..(i - 1) : SubSeq(s, j, j + Len(p) - 1) # p
    ELSE 0

\* s.split(sep) for a one-character separator: empty pieces are kept
RECURSIVE Split(_, _)
Split(s, sep) ==
    LET i == FirstIndex(s, sep)
    IN  IF i = 0 THEN <<s>>
        ELSE <<SubSeq(s, 1, i - 1)>> \o Split(SubSeq(s, i + 1, Len(s)), sep)

\* sep.join(parts)
RECURSIVE Join(_, _)
Join(parts, sep) ==
    IF Len(parts) = 0 THEN ""
    ELSE IF Len(parts) = 1 THEN parts[1]
    ELSE parts[1] \o sep \o Join(Tail(parts), sep)

\* s.replace(a, b) for a one-character a
Replace(s, a, b) == Join(Split(s, a), b)

\* s.split(): split on whitespace, empty pieces dropped
SplitWs(s) == SelectSeq(Split(s, " "), LAMBDA x : x # "")

\* s.strip()
RECURSIVE Strip(_)
Strip(s) ==
    IF s = "" THEN s
    ELSE IF SubSeq(s, 1, 1) = " " THEN Strip(SubSeq(s, 2, Len(s)))
    ELSE IF SubSeq(s, Len(s), Len(s)) = " " THEN Strip(SubSeq(s, 1, Len(s) - 1))
    ELSE s

Uppers == "ABCDEFGHIJKLMNOPQRSTUVWXYZ"
Lowers == "abcdefghijklmnopqrstuvwxyz"

LowerChar(c) ==
    IF Contains(Uppers, c)
    THEN LET i == FirstIndex(Uppers, c) IN SubSeq(Lowers, i, i)
    ELSE c

\* s.lower()
RECURSIVE Lower(_)
Lower(s) ==
    IF s = "" THEN s
    ELSE LowerChar(SubSeq(s, 1, 1)) \o Lower(SubSeq(s, 2, Len(s)))

----------------------------------------------------------------------------
(* pathlib.Path on POSIX *)

PathRoot(p) ==
    IF StartsWith(p, "//") /\ ~StartsWith(p, "///") THEN "//"
    ELSE IF StartsWith(p, "/") THEN "/"
    ELSE ""

PathSegments(p) == SelectSeq(Split(p, "/"), LAMBDA x : x # "" /\ x # ".")

\* Path(p).parts
PathParts(p) ==
    IF PathRoot(p) = "" THEN PathSegments(p) ELSE <<PathRoot(p)>> \o PathSegments(p)

\* Path(p).name
PathName(p) ==
    LET segs == PathSegments(p)
    IN  IF Len(segs) = 0 THEN "" ELSE segs[Len(segs)]

\* os.getcwd() of the hook process
os_getcwd == "/code/app"

RECURSIVE DropDotDot(_, _)
DropDotDot(segs, acc) ==
    IF Len(segs) = 0 THEN acc
    ELSE IF Head(segs) = ".."
         THEN DropDotDot(Tail(segs), IF Len(acc) = 0 THEN acc ELSE SubSeq(acc, 1, Len(acc) - 1))
         ELSE DropDotDot(Tail(segs), Append(acc, Head(segs)))

\* Path(p).resolve() on a file system without symbolic links: the parts of
\* the path made absolute, with ".." collapsed
PathResolve(p) ==
    IF PathRoot(p) = ""
    THEN <<PathRoot(os_getcwd)>> \o DropDotDot(PathSegments(os_getcwd) \o PathSegments(p), <<>>)
    ELSE <<PathRoot(p)>> \o DropDotDot(PathSegments(p), <<>>)

IsPrefix(a, b) == Len(a) <= Len(b) /\ SubSeq(b, 1, Len(a)) = a

\* a variant that forgets "or cwd_path == project_path_obj"
is_cwd_under_project_parents_only(cwd, project_path) ==
    /\ IsPrefix(PathResolve(project_path), PathResolve(cwd))
    /\ PathResolve(project_path) # PathResolve(cwd)

\* a variant that compares the two paths as strings
is_cwd_under_project_startswith(cwd, project_path) ==
    StartsWith(cwd, project_path)

is_cwd_under_project(cwd, project_path) ==
    IsPrefix(PathResolve(project_path), PathResolve(cwd))

----------------------------------------------------------------------------
(* The persisted JSON documents.  A document on disk is missing, not JSON  *)
(* ("corrupt"), JSON that is not a mapping ("list") or a mapping ("dict"). *)
(* A JSON value inside a document is a mapping ("dict") or not ("scalar"). *)

Get(f, k, default) == IF k \in DOMAIN f THEN f[k] ELSE default

Dict(d) == [kind |-> "dict", d |-> d]
Scalar == [kind |-> "scalar", d |-> EmptyMap]
MissingDoc == [kind |-> "missing", d |-> EmptyMap]
CorruptDoc == [kind |-> "corrupt", d |-> EmptyMap]
ListDoc == [kind |-> "list", d |-> EmptyMap]

CACHE_EXPIRY_DAYS == 7

expiry_seconds == CACHE_EXPIRY_DAYS * 24 * 60 * 60

load_project_cache(file) ==
    IF file.kind \in {"missing", "corrupt"} THEN Dict(EmptyMap) ELSE file

\* cache.items() needs a mapping and data.get needs every entry to be one
clean_old_cache_entries(cache, current_time) ==
    IF cache.kind # "dict" \/ \E s \in DOMAIN cache.d : cache.d[s].kind # "dict"
    THEN [raised |-> TRUE, value |-> Dict(EmptyMap)]
    ELSE [raised |-> FALSE,
          value |-> Dict([s \in {x \in DOMAIN cache.d :
                                   current_time - Get(cache.d[x].d, "timestamp", 0) < expiry_seconds}
                          |-> cache.d[s]])]

\* a variant that drops the empty pieces of the split
decode_project_folder_name_skip_empty(folder_name) ==
    IF ~StartsWith(folder_name, "-")
    THEN [ok |-> FALSE, path |-> ""]
    ELSE [ok |-> TRUE,
          path |-> "/" \o Join(SelectSeq(Split(SubSeq(folder_name, 2, Len(folder_name)), "-"),
                                         LAMBDA x : x # ""), "/")]

\* None is [ok |-> FALSE]
decode_project_folder_name(folder_name) ==
    IF ~StartsWith(folder_name, "-")
    THEN [ok |-> FALSE, path |-> ""]
    ELSE [ok |-> TRUE,
          path |-> "/" \o Join(Split(SubSeq(folder_name, 2, Len(folder_name)), "-"), "/")]

common_parents == {"code", "projects", "dev", "work", "repos", "src", "Documents", "Desktop"}

\* a variant that takes the last container directory of the path
project_name_from_path_last_parent(actual_project_path) ==
    LET path_parts == PathParts(actual_project_path)
        hits == {i \in 1..Len(path_parts) : path_parts[i] \in common_parents /\ i < Len(path_parts)}
    IN  IF hits = {} THEN PathName(actual_project_path)
        ELSE LET i == CHOOSE h \in hits : \A g \in hits : g <= h
                 remaining_parts == SubSeq(path_parts, i + 1, Len(path_parts))
             IN  IF Len(remaining_parts) = 1 THEN remaining_parts[1]
                 ELSE IF Len(remaining_parts) = 2 THEN Join(remaining_parts, "-")
                 ELSE remaining_parts[Len(remaining_parts)]

\* the project name resolve_project_name extracts from the decoded path
project_name_from_path(actual_project_path) ==
    LET path_parts == PathParts(actual_project_path)
        hits == {i \in 1..Len(path_parts) : path_parts[i] \in common_parents /\ i < Len(path_parts)}
    IN  IF hits = {} THEN PathName(actual_project_path)
        ELSE LET i == CHOOSE h \in hits : \A g \in hits : h <= g
                 remaining_parts == SubSeq(path_parts, i + 1, Len(path_parts))
             IN  IF Len(remaining_parts) = 1 THEN remaining_parts[1]
                 ELSE IF Len(remaining_parts) = 2 THEN Join(remaining_parts, "-")
                 ELSE remaining_parts[Len(remaining_parts)]

\* The replacement document: the project-name table, the auto-discovered
\* section, the command table and the pattern list
ReplDoc(kind, names, auto, commands, patterns) ==
    [kind |-> kind, names |-> names, auto |-> auto, commands |-> commands, patterns |-> patterns]

DefaultReplacements == ReplDoc("dict", EmptyMap, EmptyMap, EmptyMap, <<>>)

load_replacements(file) ==
    IF file.kind \in {"missing", "corrupt"} THEN DefaultReplacements ELSE file

\* a variant that compares the keys with their letter case
auto_add_project_to_replacements_case_sensitive(file, project_name, folder_name) ==
    LET replacements == load_replacements(file)
        friendly_name == Replace(project_name, "-", " ")
    IN  IF replacements.kind # "dict" THEN file
        ELSE IF project_name \in DOMAIN replacements.names THEN file
        ELSE [replacements EXCEPT
                !.names = [k \in DOMAIN replacements.names \cup {project_name} |->
                             IF k = project_name THEN friendly_name ELSE replacements.names[k]],
                !.auto = [k \in DOMAIN replacements.auto \cup {project_name} |->
                             IF k = project_name
                             THEN [folder |-> folder_name, display_name |-> project_name,
                                   pronunciation |-> friendly_name]
                             ELSE replacements.auto[k]]]

\* returns the document on disk after the call; every exception is swallowed
auto_add_project_to_replacements(file, project_name, folder_name) ==
    LET replacements == load_replacements(file)
        exists == \E key \in DOMAIN replacements.names : Lower(project_name) = Lower(key)
        friendly_name == Replace(project_name, "-", " ")
    IN  IF replacements.kind # "dict" THEN file
        ELSE IF exists THEN file
        ELSE [replacements EXCEPT
                !.names = [k \in DOMAIN replacements.names \cup {project_name} |->
                             IF k = project_name THEN friendly_name ELSE replacements.names[k]],
                !.auto = [k \in DOMAIN replacements.auto \cup {project_name} |->
                             IF k = project_name
                             THEN [folder |-> folder_name, display_name |-> project_name,
                                   pronunciation |-> friendly_name]
                             ELSE replacements.auto[k]]]

\* what one call of resolve_project_name returns and does
Resolved(ret, raised, glob, auto, saved, cache, repl) ==
    [ret |-> ret, raised |-> raised, glob |-> glob, auto |-> auto, saved |-> saved,
     cacheFile |-> cache, replFile |-> repl]

\* lines 337-403: the session-record lookup
session_record_lookup(cache, file, repl, dir, session_id, cwd, t) ==
    IF session_id \notin DOMAIN dir
    THEN Resolved("unknown", FALSE, TRUE, FALSE, FALSE, file, repl)
    ELSE Bind([actual_project_path \in {decode_project_folder_name(dir[session_id])} |->
         IF ~actual_project_path.ok
         THEN Resolved("unknown", FALSE, TRUE, FALSE, FALSE, file, repl)
         ELSE Bind([project_name \in {project_name_from_path(actual_project_path.path)} |->
              LET folder_name == dir[session_id]
                  entry == Dict([project_name |-> project_name,
                                 timestamp |-> t,
                                 project_path |-> actual_project_path.path,
                                 claude_folder |-> folder_name])
                  saved == Dict([s \in DOMAIN cache \cup {session_id} |->
                                   IF s = session_id THEN entry ELSE cache[s]])
              IN  Resolved(project_name, FALSE, TRUE, TRUE, TRUE, saved,
                           auto_add_project_to_replacements(repl, project_name, folder_name))])])

\* a variant that writes the pruned cache back before it answers from it
resolve_project_name_save_on_hit(file, repl, dir, session_id, cwd, t) ==
    Bind([cleaned \in {clean_old_cache_entries(load_project_cache(file), t)} |->
    Bind([cache \in {cleaned.value.d} |->
        IF cleaned.raised
        THEN Resolved("", TRUE, FALSE, FALSE, FALSE, file, repl)
        ELSE IF session_id \notin DOMAIN cache
        THEN session_record_lookup(cache, file, repl, dir, session_id, cwd, t)
        ELSE IF "project_name" \notin DOMAIN cache[session_id].d
        THEN Resolved("", TRUE, FALSE, FALSE, FALSE, file, repl)
        ELSE IF /\ cwd # ""
                /\ "project_path" \in DOMAIN cache[session_id].d
                /\ ~is_cwd_under_project(cwd, cache[session_id].d.project_path)
        THEN session_record_lookup(cache, file, repl, dir, session_id, cwd, t)
        ELSE Resolved(cache[session_id].d.project_name, FALSE, FALSE, FALSE, FALSE,
                      cleaned.value, repl)])])

\* cwd = "" is the missing (falsy) cwd
resolve_project_name(file, repl, dir, session_id, cwd, t) ==
    Bind([cleaned \in {clean_old_cache_entries(load_project_cache(file), t)} |->
    Bind([cache \in {cleaned.value.d} |->
        IF cleaned.raised
        THEN Resolved("", TRUE, FALSE, FALSE, FALSE, file, repl)
        ELSE IF session_id \notin DOMAIN cache
        THEN session_record_lookup(cache, file, repl, dir, session_id, cwd, t)
        ELSE IF "project_name" \notin DOMAIN cache[session_id].d
        THEN Resolved("", TRUE, FALSE, FALSE, FALSE, file, repl)
        ELSE IF /\ cwd # ""
                /\ "project_path" \in DOMAIN cache[session_id].d
                /\ ~is_cwd_under_project(cwd, cache[session_id].d.project_path)
        THEN session_record_lookup(cache, file, repl, dir, session_id, cwd, t)
        ELSE Resolved(cache[session_id].d.project_name, FALSE, FALSE, FALSE, FALSE, file, repl)])])

----------------------------------------------------------------------------
(* The sound cache (NotificationHandler.get_notification_sound) *)

\* a TTS installation: USE_TTS, the provider _init_tts_provider ended with
\* ("none" is tts_provider = None), its format, and whether pydub imports
TtsConfig(use_tts, provider, format, pydub) ==
    [use_tts |-> use_tts, provider |-> provider, format |-> format, pydub |-> pydub]

TTS_PROVIDER == "kokoro"

\* hashlib.md5(text.encode()).hexdigest()[:16]: a digest of the text, taken
\* to be free of collisions on the texts of the model
get_cache_key(text) == "md5<" \o text \o ">"

get_file_extension(format) ==
    IF format = "mp3" THEN ".mp3"
    ELSE IF format = "aiff" THEN ".aiff"
    ELSE ".wav"

default_texts ==
    [tool_activity |-> "Tool activity",
     execution_complete |-> "Task complete",
     subagent_done |-> "Sub agent done",
     error |-> "Error occurred",
     tool_blocked |-> "Tool blocked",
     compaction |-> "Compacting context",
     input_needed |-> "Input needed"]

\* Path.with_suffix
WithSuffix(path, suffix) ==
    LET dots == {i \in 1..Len(path) : SubSeq(path, i, i) = "."}
        last == CHOOSE i \in dots : \A j \in dots : j <= i
    IN  IF dots = {} THEN path \o suffix ELSE SubSeq(path, 1, last - 1) \o suffix

\* what is on disk after a file was written: complete audio, or the
\* leftover of a write that failed after the file was opened
PutFile(dir, path, content) ==
    [f \in DOMAIN dir \cup {path} |-> IF f = path THEN content ELSE dir[f]]

\* how the synthesis backend fares in one call of generate
GenOutcomes == {"ok", "fail", "fail_partial"}

\* lines 120-134: the file generate writes; without pydub the mp3 format
\* falls back to a .wav file beside output_path
generate_target(cfg, output_path) ==
    IF cfg.format = "mp3" /\ ~cfg.pydub THEN WithSuffix(output_path, ".wav") ELSE output_path

\* KokoroTTSProvider.generate: every exception is caught and gives False
generate(cfg, dir, text, output_path, outcome) ==
    IF outcome = "fail"
    THEN [success |-> FALSE, soundsDir |-> dir]
    ELSE IF outcome = "fail_partial"
    THEN [success |-> FALSE, soundsDir |-> PutFile(dir, generate_target(cfg, output_path), "partial")]
    ELSE [success |-> TRUE, soundsDir |-> PutFile(dir, generate_target(cfg, output_path), "audio")]

sound_file_name(cfg, event_type, text_to_speak) ==
    TTS_PROVIDER \o "_" \o event_type \o "_" \o get_cache_key(text_to_speak)
        \o get_file_extension(cfg.format)

\* "" is None; gen counts the calls of generate
SoundResult(ret, gen, dir) == [ret |-> ret, gen |-> gen, soundsDir |-> dir]

get_notification_sound(cfg, dir, event_type, custom_text, outcome) ==
    IF ~cfg.use_tts \/ cfg.provider = "none"
    THEN SoundResult("", 0, dir)
    ELSE LET text_to_speak ==
                 IF custom_text # "" THEN custom_text
                 ELSE IF event_type \in DOMAIN default_texts THEN default_texts[event_type]
                 ELSE "Claude notification"
             sound_file == sound_file_name(cfg, event_type, text_to_speak)
         IN  IF sound_file \in DOMAIN dir
             THEN SoundResult(sound_file, 0, dir)
             ELSE LET g == generate(cfg, dir, text_to_speak, sound_file, outcome)
                  IN  SoundResult(IF g.success THEN sound_file ELSE "", 1, g.soundsDir)

\* a variant that starts the player twice
play_sound_file_twice(dir, sound_path) ==
    IF sound_path \in DOMAIN dir THEN <<sound_path, sound_path>> ELSE <<>>

\* play_sound_file starts afplay only for a path that exists
play_sound_file(dir, sound_path) ==
    IF sound_path \in DOMAIN dir THEN <<sound_path>> ELSE <<>>

----------------------------------------------------------------------------
(* The replacement engine and the event classifier *)

\* raises unless the loaded document is a mapping
apply_project_name_replacement(project_name, replacements) ==
    LET hits == {original \in DOMAIN replacements.names : Lower(project_name) = Lower(original)}
    IN  IF hits = {} THEN project_name ELSE replacements.names[CHOOSE original \in hits : TRUE]

\* s.replace(a, b) for a text a that is not empty
RECURSIVE ReplaceText(_, _, _)
ReplaceText(s, a, b) ==
    LET i == FirstIndex(s, a)
    IN  IF i = 0 THEN s
        ELSE SubSeq(s, 1, i - 1) \o b \o ReplaceText(SubSeq(s, i + Len(a), Len(s)), a, b)

\* re.compile for the constructs a pattern of the model is written in: a
\* literal character, a group of literal text "(text)", an optional one
\* "(text)?", and the group "(\S+)".  An unbalanced "(" is re.error.
RECURSIVE re_compile(_, _)
re_compile(pattern, i) ==
    IF i > Len(pattern) THEN [ok |-> TRUE, tokens |-> <<>>]
    ELSE IF SubSeq(pattern, i, i) = "("
    THEN LET rest == SubSeq(pattern, i + 1, Len(pattern))
             close == FirstIndex(rest, ")")
         IN  IF close = 0 THEN [ok |-> FALSE, tokens |-> <<>>]
             ELSE LET inner == SubSeq(rest, 1, close - 1)
                      optional == close < Len(rest) /\ SubSeq(rest, close + 1, close + 1) = "?"
                      after == re_compile(pattern, i + close + (IF optional THEN 2 ELSE 1))
                      token == IF inner = "\\S+"
                               THEN [t |-> "nonspace", s |-> "", optional |-> FALSE]
                               ELSE [t |-> "group", s |-> inner, optional |-> optional]
                  IN  [ok |-> after.ok, tokens |-> <<token>> \o after.tokens]
    ELSE LET after == re_compile(pattern, i + 1)
         IN  [ok |-> after.ok,
              tokens |-> <<[t |-> "literal", s |-> SubSeq(pattern, i, i), optional |-> FALSE]>>
                         \o after.tokens]

\* a group of a match: its text, or None when it took no part in the match
Group(none, s) == [none |-> none, s |-> s]

NoMatch == [ok |-> FALSE, groups |-> <<>>]

\* the text of s at pos equals text, letter case apart (re.IGNORECASE)
LooksAt(s, pos, text) ==
    pos + Len(text) - 1 <= Len(s) /\ Lower(SubSeq(s, pos, pos + Len(text) - 1)) = Lower(text)

\* how many characters from pos on are not whitespace
RECURSIVE NonSpaceRun(_, _)
NonSpaceRun(s, pos) ==
    IF pos > Len(s) \/ SubSeq(s, pos, pos) = " " THEN 0 ELSE 1 + NonSpaceRun(s, pos + 1)

\* the match of tokens[i..] at pos: groups are greedy and give back on failure
RECURSIVE re_match(_, _, _, _)
re_match(tokens, i, s, pos) ==
    IF i > Len(tokens) THEN [ok |-> TRUE, groups |-> <<>>]
    ELSE IF tokens[i].t = "literal"
    THEN IF LooksAt(s, pos, tokens[i].s) THEN re_match(tokens, i + 1, s, pos + 1) ELSE NoMatch
    ELSE IF tokens[i].t = "group"
    THEN LET len == Len(tokens[i].s)
             with == IF LooksAt(s, pos, tokens[i].s) THEN re_match(tokens, i + 1, s, pos + len) ELSE NoMatch
             without == IF tokens[i].optional THEN re_match(tokens, i + 1, s, pos) ELSE NoMatch
         IN  IF with.ok
             THEN [ok |-> TRUE, groups |-> <<Group(FALSE, SubSeq(s, pos, pos + len - 1))>> \o with.groups]
             ELSE IF without.ok
             THEN [ok |-> TRUE, groups |-> <<Group(TRUE, "")>> \o without.groups]
             ELSE NoMatch
    ELSE LET lens == {n \in 1..NonSpaceRun(s, pos) : re_match(tokens, i + 1, s, pos + n).ok}
         IN  IF lens = {} THEN NoMatch
             ELSE LET n == CHOOSE a \in lens : \A c \in lens : c <= a
                  IN  [ok |-> TRUE,
                       groups |-> <<Group(FALSE, SubSeq(s, pos, pos + n - 1))>>
                                  \o re_match(tokens, i + 1, s, pos + n).groups]

\* re.search(pattern, command, re.IGNORECASE): the leftmost match
re_search(tokens, command) ==
    LET starts == {pos \in 1..(Len(command) + 1) : re_match(tokens, 1, command, pos).ok}
    IN  IF starts = {} THEN NoMatch
        ELSE re_match(tokens, 1, command, CHOOSE a \in starts : \A c \in starts : a <= c)

\* lines 446-448: "$1", "$2", ... are replaced one after the other
RECURSIVE substitute_groups(_, _, _)
substitute_groups(result, groups, i) ==
    IF i > Len(groups) THEN result
    ELSE substitute_groups(ReplaceText(result, "$" \o ToString(i), groups[i].s), groups, i + 1)

\* what apply_command_replacement did: raised an exception or returned ret
Replaced(raised, ret) == [raised |-> raised, ret |-> ret]

\* lines 451-459: the direct command table and the fallback
direct_command_replacement(command, cmd_replacements) ==
    LET cmd_parts == SplitWs(command)
    IN  IF Len(cmd_parts) > 0 /\ cmd_parts[1] \in DOMAIN cmd_replacements
        THEN cmd_replacements[cmd_parts[1]]
        ELSE IF Len(cmd_parts) > 0 THEN "running " \o cmd_parts[1]
        ELSE "running command"

\* lines 439-449: the patterns from the i-th on, in declaration order.
\* re.search raises re.error on a pattern that does not compile, and
\* str.replace raises TypeError on a group that is None.
RECURSIVE pattern_replacement(_, _, _)
pattern_replacement(command, replacements, i) ==
    IF i > Len(replacements.patterns)
    THEN Replaced(FALSE, direct_command_replacement(command, replacements.commands))
    ELSE LET pattern == replacements.patterns[i].pattern
             replacement == replacements.patterns[i].replacement
         IN  IF pattern = "" \/ replacement = ""
             THEN pattern_replacement(command, replacements, i + 1)
             ELSE Bind([compiled \in {re_compile(pattern, 1)} |->
                  IF ~compiled.ok THEN Replaced(TRUE, "")
                  ELSE Bind([match \in {re_search(compiled.tokens, command)} |->
                       IF ~match.ok THEN pattern_replacement(command, replacements, i + 1)
                       ELSE IF \E g \in 1..Len(match.groups) : match.groups[g].none
                       THEN Replaced(TRUE, "")
                       ELSE Replaced(FALSE, substitute_groups(replacement, match.groups, 1))])])

\* lines 433-459
apply_command_replacement(command, replacements) ==
    pattern_replacement(command, replacements, 1)

UpperChar(c) ==
    IF Contains(Lowers, c)
    THEN LET i == FirstIndex(Lowers, c) IN SubSeq(Uppers, i, i)
    ELSE c

\* s.capitalize()
Capitalize(s) ==
    IF s = "" THEN s ELSE UpperChar(SubSeq(s, 1, 1)) \o Lower(SubSeq(s, 2, Len(s)))

\* a slice that keeps the whole text
Truncate_nothing(s, n) == s

\* s[:n]
Truncate(s, n) == IF Len(s) <= n THEN s ELSE SubSeq(s, 1, n)

WordChars == Lowers \o Uppers \o "0123456789_"

IsWordAt(s, i) == i >= 1 /\ i <= Len(s) /\ Contains(WordChars, SubSeq(s, i, i))

\* re.search(r"permission to use (\w+)", raw_message): group 1, "" without a match
permission_tool(raw_message) ==
    LET pat == "permission to use "
        starts == {i \in 1..(Len(raw_message) - Len(pat) + 1) :
                     /\ SubSeq(raw_message, i, i + Len(pat) - 1) = pat
                     /\ IsWordAt(raw_message, i + Len(pat))}
    IN  IF starts = {} THEN ""
        ELSE LET i == CHOOSE a \in starts : \A b \in starts : a <= b
                 from == i + Len(pat)
                 to == CHOOSE e \in from..Len(raw_message) :
                          /\ \A k \in from..e : IsWordAt(raw_message, k)
                          /\ ~IsWordAt(raw_message, e + 1)
             IN  SubSeq(raw_message, from, to)

\* what the dispatch of handle_hook leaves in its locals; "" is None
Classified(returned, event_type, message, custom_tts) ==
    [returned |-> returned, event_type |-> event_type, message |-> message,
     custom_tts |-> custom_tts]

NoEvent == Classified(FALSE, "", "", "")

safe_prefixes == {"echo", "pwd", "ls", "cat", "head", "tail", "grep", "find", "which"}

\* a deny-list that misses the output redirect
dangerous_prefixes_without_redirect ==
    {"rm", "mv", "cp", "sudo", "chmod", "chown", "curl", "wget"}

dangerous_prefixes == {"rm", "mv", "cp", "sudo", "chmod", "chown", ">", "curl", "wget"}

\* lines 639-645: the target named in the messages; "" is None
bash_target(cmd_parts) ==
    IF Len(cmd_parts) > 1
    THEN LET target == IF Contains(cmd_parts[2], "/") THEN PathName(cmd_parts[2]) ELSE cmd_parts[2]
         IN  IF StartsWith(target, "-")
             THEN IF Len(cmd_parts) > 2 THEN PathName(cmd_parts[Len(cmd_parts)]) ELSE ""
             ELSE target
    ELSE ""

\* lines 648-659
tts_descriptions(key, target) ==
    CASE key = "rm" -> IF target # "" THEN "removing " \o target ELSE "removing files"
      [] key = "rm -rf" -> IF target # "" THEN "force removing " \o target ELSE "force removing files"
      [] key = "rm -r" -> IF target # "" THEN "removing directory " \o target ELSE "removing directory"
      [] key = "mv" -> IF target # "" THEN "moving " \o target ELSE "moving files"
      [] key = "cp" -> IF target # "" THEN "copying " \o target ELSE "copying files"
      [] key = "sudo" -> "running with admin privileges"
      [] key = "chmod" -> IF target # "" THEN "changing permissions on " \o target ELSE "changing permissions"
      [] key = "chown" -> IF target # "" THEN "changing ownership of " \o target ELSE "changing ownership"
      [] key = "curl" -> "downloading from web"
      [] key = "wget" -> "downloading file"

described_commands == {"rm", "mv", "cp", "sudo", "chmod", "chown", "curl", "wget"}

\* lines 662-669: the flag test looks at the whole command string
audio_desc(cmd_summary, command, target) ==
    IF cmd_summary = "rm" /\ Contains(command, "-rf") THEN tts_descriptions("rm -rf", target)
    ELSE IF cmd_summary = "rm" /\ Contains(command, "-r") THEN tts_descriptions("rm -r", target)
    ELSE IF cmd_summary \in described_commands THEN tts_descriptions(cmd_summary, target)
    ELSE "running " \o cmd_summary

\* a variant that tests the allow-list after the deny-list
is_safe_command_after_deny(command) ==
    /\ \E prefix \in safe_prefixes : StartsWith(Strip(command), prefix)
    /\ ~\E prefix \in dangerous_prefixes : Contains(command, prefix)

\* line 627
is_safe_command(command) ==
    \E prefix \in safe_prefixes : StartsWith(Strip(command), prefix)

\* lines 622-678: PreToolUse of the Bash tool
classify_bash(command, display_project_name) ==
    IF is_safe_command(command)
    THEN Classified(TRUE, "", "", "")
    ELSE IF \E prefix \in dangerous_prefixes : Contains(command, prefix)
    THEN Bind([cmd_parts \in {SplitWs(command)} |->
         LET cmd_summary == IF Len(cmd_parts) > 0 THEN cmd_parts[1] ELSE "command"
             target == bash_target(cmd_parts)
         IN  Classified(FALSE, "tool_activity",
                 IF target # ""
                 THEN "[" \o display_project_name \o "] Running " \o cmd_summary \o " on " \o target
                 ELSE "[" \o display_project_name \o "] Running " \o cmd_summary,
                 display_project_name \o ", " \o audio_desc(cmd_summary, command, target))])
    ELSE NoEvent

sensitive_markers == {"/etc/", "/usr/", ".env", "config", "secret"}

\* lines 681-698: PreToolUse of Write, MultiEdit, Edit
classify_edit(tool_name, file_path, display_project_name) ==
    IF \E x \in sensitive_markers : Contains(file_path, x)
    THEN LET action_desc == IF tool_name = "Write" THEN "writing"
                            ELSE IF tool_name = "MultiEdit" THEN "multi-editing"
                            ELSE "editing"
         IN  Classified(FALSE, "tool_activity",
                 "[" \o display_project_name \o "] " \o Capitalize(action_desc) \o " " \o PathName(file_path),
                 display_project_name \o ", " \o action_desc \o " " \o PathName(file_path))
    ELSE NoEvent

\* lines 700-716
classify_post_tool_use(tool_name, tool_response, display_project_name) ==
    IF /\ tool_response.kind = "dict"
       /\ (Get(tool_response.d, "type", "") = "error" \/ "error" \in DOMAIN tool_response.d)
    THEN LET error_msg == Get(tool_response.d, "error", Get(tool_response.d, "message", "Unknown error"))
         IN  Classified(FALSE, "error",
                 "[" \o display_project_name \o "] Error in " \o tool_name \o ": " \o Truncate(error_msg, 100),
                 display_project_name \o ", " \o tool_name \o " failed")
    ELSE NoEvent

\* lines 732-757
classify_notification(notif_type, has_message, raw, display_project_name) ==
    LET raw_message == IF has_message THEN raw ELSE ""
    IN  IF Contains(Lower(notif_type), "error")
        THEN Classified(FALSE, "error", IF has_message THEN raw ELSE "An error occurred", "")
        ELSE IF Contains(raw_message, "permission to use")
        THEN IF permission_tool(raw_message) # ""
             THEN Classified(FALSE, "input_needed",
                      "[" \o display_project_name \o "] Permission needed for " \o permission_tool(raw_message),
                      display_project_name \o ", needs permission for " \o permission_tool(raw_message))
             ELSE Classified(FALSE, "input_needed",
                      "[" \o display_project_name \o "] " \o raw_message,
                      display_project_name \o ", " \o raw_message)
        ELSE Classified(FALSE, "input_needed",
                 "[" \o display_project_name \o "] Input needed",
                 display_project_name \o ", input needed")

\* lines 616-757: the dispatch on hook_type
classify(ev, display_project_name) ==
    IF ev.hook_type = "PreToolUse"
    THEN IF ev.tool_name = "Bash" THEN classify_bash(ev.command, display_project_name)
         ELSE IF ev.tool_name \in {"Write", "MultiEdit", "Edit"}
         THEN classify_edit(ev.tool_name, ev.file_path, display_project_name)
         ELSE NoEvent
    ELSE IF ev.hook_type = "PostToolUse"
    THEN classify_post_tool_use(ev.tool_name, ev.tool_response, display_project_name)
    ELSE IF ev.hook_type = "Stop"
    THEN Classified(FALSE, "execution_complete",
             "[" \o display_project_name \o "] Task complete",
             display_project_name \o ", task completed successfully")
    ELSE IF ev.hook_type = "SubagentStop"
    THEN Classified(FALSE, "subagent_done",
             "[" \o display_project_name \o "] Subagent finished",
             display_project_name \o ", sub agent finished")
    ELSE IF ev.hook_type = "PreCompact"
    THEN Classified(FALSE, "compaction", "Context compaction starting", "")
    ELSE IF ev.hook_type = "Notification"
    THEN classify_notification(ev.notification_type, ev.has_message, ev.message, display_project_name)
    ELSE NoEvent

\* lines 593-604: the project name of an event without a session id
project_name_from_cwd(cwd) ==
    LET path_parts == PathParts(cwd)
        hits == {i \in 1..Len(path_parts) : path_parts[i] = "code"}
    IN  IF hits = {} THEN PathName(cwd)
        ELSE LET idx == CHOOSE h \in hits : \A g \in hits : h <= g
             IN  IF idx < Len(path_parts) THEN path_parts[idx + 1] ELSE PathName(cwd)

\* line 764
clean_message(message) ==
    IF Contains(message, "] ")
    THEN SubSeq(message, FirstIndex(message, "] ") + 2, Len(message))
    ELSE message

----------------------------------------------------------------------------
(* NotificationHandler.handle_hook and main *)

\* lines 592-609
hook_project(ev, file, repl, dir, t) ==
    IF ev.session_id = "unknown" /\ ev.cwd # ""
    THEN Resolved(project_name_from_cwd(ev.cwd), FALSE, FALSE, FALSE, FALSE, file, repl)
    ELSE resolve_project_name(file, repl, dir, ev.session_id, ev.cwd, t)

\* what one call of handle_hook did: the locals of the dispatch, the calls
\* of notify, generate and afplay, and the documents it left on disk
HookResult(raised, c, display, notify, sound, gen, play, file, repl, sounds) ==
    [raised |-> raised, returned |-> c.returned, event_type |-> c.event_type,
     message |-> c.message, custom_tts |-> c.custom_tts, display |-> display,
     notify |-> notify, sound |-> sound, gen |-> gen, play |-> play,
     cacheFile |-> file, replFile |-> repl, soundsDir |-> sounds]

\* a variant that fetches the sound first and notifies only with a sound
emit_audio_first(c, display, p, cfg, sounds, outcome) ==
    IF c.event_type # "" /\ c.message # ""
    THEN Bind([snd \in {get_notification_sound(cfg, sounds, c.event_type, c.custom_tts, outcome)} |->
                  HookResult(FALSE, c, display,
                      IF snd.ret # ""
                      THEN <<[title |-> display, message |-> clean_message(c.message)]>>
                      ELSE <<>>,
                      snd.ret, snd.gen,
                      IF snd.ret # "" THEN play_sound_file(snd.soundsDir, snd.ret) ELSE <<>>,
                      p.cacheFile, p.replFile, snd.soundsDir)])
    ELSE HookResult(FALSE, c, display, <<>>, "", 0, <<>>, p.cacheFile, p.replFile, sounds)

\* lines 759-778
emit(c, display, p, cfg, sounds, outcome) ==
    IF c.event_type # "" /\ c.message # ""
    THEN Bind([snd \in {get_notification_sound(cfg, sounds, c.event_type, c.custom_tts, outcome)} |->
                  HookResult(FALSE, c, display,
                      <<[title |-> display, message |-> clean_message(c.message)]>>,
                      snd.ret, snd.gen,
                      IF snd.ret # "" THEN play_sound_file(snd.soundsDir, snd.ret) ELSE <<>>,
                      p.cacheFile, p.replFile, snd.soundsDir)])
    ELSE HookResult(FALSE, c, display, <<>>, "", 0, <<>>, p.cacheFile, p.replFile, sounds)

handle_hook(ev, file, repl, dir, cfg, sounds, t, outcome) ==
    Bind([replacements \in {load_replacements(repl)} |->
    Bind([p \in {hook_project(ev, file, repl, dir, t)} |->
        IF p.raised \/ replacements.kind # "dict"
        THEN HookResult(TRUE, NoEvent, "", <<>>, "", 0, <<>>, p.cacheFile, p.replFile, sounds)
        ELSE Bind([display \in {apply_project_name_replacement(p.ret, replacements)} |->
             Bind([c \in {classify(ev, display)} |->
                 emit(c, display, p, cfg, sounds, outcome)])])])])

\* lines 808-819: test mode, python notify.py <event_type> [message]
test_mode(argv, cfg, sounds, outcome) ==
    IF Len(argv) > 0
    THEN LET snd == get_notification_sound(cfg, sounds, argv[1], "", outcome)
         IN  [exit_code |-> 0,
              notify |-> <<[title |-> "Claude Code",
                            message |-> IF Len(argv) > 1 THEN argv[2] ELSE "Test notification"]>>,
              sound |-> snd.ret,
              gen |-> snd.gen,
              play |-> IF snd.ret # "" THEN play_sound_file(snd.soundsDir, snd.ret) ELSE <<>>,
              soundsDir |-> snd.soundsDir]
    ELSE [exit_code |-> 0, notify |-> <<>>, sound |-> "", gen |-> 0, play |-> <<>>,
          soundsDir |-> sounds]

\* what one run of main did
MainResult(exit_code, notify, sound, gen, play, file, repl, sounds) ==
    [exit_code |-> exit_code, notify |-> notify, sound |-> sound, gen |-> gen, play |-> play,
     cacheFile |-> file, replFile |-> repl, soundsDir |-> sounds]

\* the event handle_hook reads from the empty object {}
EmptyObjectEvent ==
    [hook_type |-> "unknown", session_id |-> "unknown", cwd |-> os_getcwd,
     tool_name |-> "unknown", command |-> "", file_path |-> "", tool_response |-> Dict(EmptyMap),
     notification_type |-> "", has_message |-> FALSE, message |-> ""]

\* a parser that takes input that is not JSON for the empty object
json_loads_lenient(payload) ==
    [raised |-> FALSE,
     value |-> IF payload.kind = "invalid"
               THEN [kind |-> "object", ev |-> EmptyObjectEvent]
               ELSE payload]

\* line 826: json.loads(raw_input) raises JSONDecodeError on input that is
\* not JSON
json_loads(payload) ==
    [raised |-> payload.kind = "invalid", value |-> payload]

\* lines 781-836.  env_crash: BASE_DIR/.env exists and load_dotenv was not
\* imported, a NameError that "except ImportError" lets through.  Standard
\* input is a terminal (payload "none", nothing is read), or a pipe holding
\* text that is not JSON ("invalid"), JSON that is no object ("scalar"), or
\* an event ("object").
main(tty, argv, payload, env_crash, file, repl, dir, cfg, sounds, t, outcome) ==
    IF env_crash
    THEN MainResult(1, <<>>, "", 0, <<>>, file, repl, sounds)
    ELSE IF tty
    THEN Bind([m \in {test_mode(argv, cfg, sounds, outcome)} |->
             MainResult(m.exit_code, m.notify, m.sound, m.gen, m.play, file, repl,
                        m.soundsDir)])
    ELSE Bind([hook_data \in {json_loads(payload)} |->
         IF hook_data.raised \/ hook_data.value.kind # "object"
         THEN MainResult(1, <<>>, "", 0, <<>>, file, repl, sounds)
         ELSE Bind([h \in {handle_hook(hook_data.value.ev, file, repl, dir, cfg, sounds, t, outcome)} |->
                       MainResult(IF h.raised THEN 1 ELSE 0, h.notify, h.sound, h.gen, h.play,
                                  h.cacheFile, h.replFile, h.soundsDir)])])

----------------------------------------------------------------------------
(* The inputs and the initial state *)

Sids == {"s1", "s2"}

\* encoded folder names under PROJECTS_DIR: /code/app, /code/my-app, the
\* bare marker, and a folder without the leading marker
Folders == {"-code-app", "-code-my-app", "-", "app"}

\* working directories of a hook event; "" is the missing cwd
Cwds == {"", "/code/app", "/code/app/sub/../lib", "/code/my-app", "/code/app2"}

\* readings of time.time(): the start and the seconds around the expiry
Times == {0} \cup ((expiry_seconds - ClockSlack)..(expiry_seconds + ClockSlack))

Entry(name, path, folder, ts) ==
    Dict([project_name |-> name, timestamp |-> ts, project_path |-> path, claude_folder |-> folder])

\* project cache documents this program wrote (or failed to finish writing):
\* none, an unparseable one, an entry of an older version without
\* project_path, and an entry whose name is not the one derived today
CacheSeeds ==
    { MissingDoc, CorruptDoc,
      Dict([s \in {"s2"} |-> Dict([project_name |-> "legacy", timestamp |-> 0])]),
      Dict([s \in {"s1"} |-> Entry("renamed", "/code/app", "-code-app", 0)]) }

\* parseable documents of another shape: not a mapping, an entry that is not
\* a mapping, an entry without project_name, an entry with an empty name
ForeignCacheSeeds ==
    { ListDoc,
      Dict([s \in {"s1"} |-> Scalar]),
      Dict([s \in {"s1"} |-> Dict([timestamp |-> 0])]),
      Dict([s \in {"s1"} |-> Dict([project_name |-> "", timestamp |-> 0])]) }

\* replacement documents: none, an unparseable one, one with a user alias
ReplSeeds ==
    { ReplDoc("missing", EmptyMap, EmptyMap, EmptyMap, <<>>),
      ReplDoc("corrupt", EmptyMap, EmptyMap, EmptyMap, <<>>),
      ReplDoc("dict", [k \in {"App"} |-> "Application"], EmptyMap, EmptyMap, <<>>) }

\* a parseable replacement document that is not a mapping
ForeignReplSeeds ==
    { ReplDoc("list", EmptyMap, EmptyMap, EmptyMap, <<>>) }

\* replacement documents a user has edited: a command alias, a literal
\* pattern, two patterns that match the same command, a pattern with an
\* optional group, a pattern that does not compile
CommandReplSeeds ==
    { ReplDoc("dict", EmptyMap, EmptyMap, [k \in {"mv"} |-> "moving things"], <<>>),
      ReplDoc("dict", EmptyMap, EmptyMap, EmptyMap,
              <<[pattern |-> "", replacement |-> "nothing"],
                [pattern |-> "GIT status", replacement |-> "checking the repository"]>>),
      ReplDoc("dict", EmptyMap, EmptyMap, EmptyMap,
              <<[pattern |-> "git (\\S+)", replacement |-> "git $1"],
                [pattern |-> "git status", replacement |-> "checking the repository"]>>),
      ReplDoc("dict", EmptyMap, EmptyMap, EmptyMap,
              <<[pattern |-> "rm( -rf)? (\\S+)", replacement |-> "removing $2"]>>),
      ReplDoc("dict", EmptyMap, EmptyMap, EmptyMap,
              <<[pattern |-> "rm (", replacement |-> "removing"]>>) }

\* every directory name of up to MaxFolderLen characters over the marker and
\* two other characters
FolderAlphabet == {"-", "a", "b"}

RECURSIVE FolderNamesUpTo(_)
FolderNamesUpTo(n) ==
    IF n = 0 THEN {""}
    ELSE FolderNamesUpTo(n - 1) \cup {s \o c : s \in FolderNamesUpTo(n - 1), c \in FolderAlphabet}

\* directory names of a project path: two container names and two others
NameSegments == {"code", "src", "a", "b"}

RECURSIVE SegmentSeqsUpTo(_)
SegmentSeqsUpTo(n) ==
    IF n = 0 THEN {<<>>}
    ELSE SegmentSeqsUpTo(n - 1)
         \cup {Append(segs, seg) : segs \in SegmentSeqsUpTo(n - 1), seg \in NameSegments}

\* the folder of every project path of up to MaxSegments directory names
NameFolders == {"-" \o Join(segs, "-") : segs \in SegmentSeqsUpTo(MaxSegments)}

\* PROJECTS_DIR as the external tool left it: no session record, a record of
\* s1 in any folder, or records of both sessions
ProjectsDirs ==
    {EmptyMap} \cup { [s \in {"s1"} |-> f] : f \in Folders }
    \cup { [s \in Sids |-> IF s = "s1" THEN "-code-app" ELSE "-code-my-app"] }

\* a hook event as handle_hook reads it (each field after its .get default)
Ev(hook_type, session_id, cwd, tool_name, command, file_path, tool_response, notification_type, has_message, message) ==
    [hook_type |-> hook_type, session_id |-> session_id, cwd |-> cwd,
     tool_name |-> tool_name, command |-> command, file_path |-> file_path,
     tool_response |-> tool_response, notification_type |-> notification_type,
     has_message |-> has_message, message |-> message]

BashEvent(session_id, cwd, command) ==
    Ev("PreToolUse", session_id, cwd, "Bash", command, "", Dict(EmptyMap), "", FALSE, "")

\* commands that start with an allow-list prefix, some with a deny-list marker
SafeCommands ==
    { "echo hi", "  ls -la", "pwd", "cat a > b", "head -n1 f", "tail f",
      "grep rm notes", "find . -name x -exec rm", "which curl" }

\* file names given to a plain rm
RmNames == {"important.txt", "my-report.txt", "a", "draft-rf"}

OtherCommands ==
    { "rm -rf /tmp/foo", "rm -r dir", "rm", "rm -f", "rm -f a b", "rm -r -f", "rm dir/file.txt",
      "mv a b", "cp -a src dst", "sudo reboot", "chmod +x run.sh", "chown u f",
      "curl http://x", "wget u", "git status", "npm run format", "make > out" }

Commands == SafeCommands \cup {"rm " \o name : name \in RmNames} \cup OtherCommands

\* the session and cwd of an event: a recorded session in and outside its
\* project, no session id, and a session in a hyphenated project
Contexts ==
    { <<"s1", "/code/app">>, <<"s1", "">>, <<"unknown", "/code/app">>,
      <<"s2", "/code/my-app">>, <<"s2", "/code/app2">> }

StopEvents ==
    { Ev("Stop", c[1], c[2], tool[1], tool[2], "", Dict(EmptyMap), "", FALSE, "")
        : c \in Contexts, tool \in {<<"unknown", "">>, <<"Bash", "rm a">>} }

\* Notification events: sub-types with and without "error", the message
\* absent, empty, a permission request, other texts, one holding "] "
NotificationMessages ==
    { "", "Claude needs your permission to use Bash", "Claude is waiting for your input",
      "permission to use !", "build [2] failed" }

NotificationEvents ==
    { Ev("Notification", "s1", "/code/app", "unknown", "", "", Dict(EmptyMap), notif_type, has_message, message)
        : notif_type \in {"", "Tool_ERROR"}, has_message \in {TRUE}, message \in NotificationMessages }
    \cup { Ev("Notification", "s1", "/code/app", "unknown", "", "", Dict(EmptyMap), notif_type, FALSE, "")
             : notif_type \in {"", "Tool_ERROR"} }

\* the other hook types, and PreToolUse and PostToolUse of other tools
\* an error text of 105 characters
LongError ==
    "0123456789012345678901234567890123456789012345678901234567890123456789012345678901234567890123456789abcde"

\* tool responses: error indicators of both kinds, an empty and a long error
\* text, a bare type, mappings without an indicator, a string and a list
ToolResponses ==
    { Dict([error |-> "boom"]), Dict([type |-> "error", message |-> "bad"]),
      Dict([error |-> ""]), Dict([error |-> LongError]), Dict([type |-> "error"]),
      Dict([output |-> "fine"]), Dict([type |-> "Error", message |-> "error"]),
      Dict(EmptyMap), Scalar, ListDoc }

OtherEvents ==
    { Ev(hook_type, "s1", "/code/app", "unknown", "", "", Dict(EmptyMap), "", FALSE, "")
        : hook_type \in {"PreCompact", "SubagentStop", "unknown"} }
    \cup { Ev("PostToolUse", "s1", "/code/app", "Bash", "", "", tool_response, "", FALSE, "")
             : tool_response \in ToolResponses }
    \cup { Ev("PreToolUse", "s1", "/code/app", tool[1], "", tool[2], Dict(EmptyMap), "", FALSE, "")
             : tool \in { <<"Edit", "/etc/hosts">>, <<"Edit", "src/main.py">>,
                          <<"Write", "/code/app/.env">>, <<"Read", "/etc/hosts">> } }

ClassifyEvents ==
    { BashEvent("s1", "/code/app", command) : command \in Commands }
    \cup { BashEvent("s2", "/code/my-app", "rm " \o name) : name \in RmNames }
    \cup StopEvents
    \cup NotificationEvents
    \cup OtherEvents

\* events of a TTS installation: the allow-listed commands, two reported
\* commands, the end of the task and a compaction
TtsEvents ==
    { BashEvent("s1", "/code/app", command) : command \in SafeCommands \cup {"rm a", "git status"} }
    \cup { Ev(hook_type, "s1", "/code/app", "unknown", "", "", Dict(EmptyMap), "", FALSE, "")
             : hook_type \in {"Stop", "PreCompact"} }

\* the events main is fed
MainEvents ==
    { BashEvent("s1", "/code/app", command) : command \in {"echo hi", "rm a"} }
    \cup { Ev("Stop", "s1", "/code/app", "unknown", "", "", Dict(EmptyMap), "", FALSE, "") }

\* standard input of main
Payloads ==
    { [kind |-> "invalid"], [kind |-> "scalar"] }
    \cup { [kind |-> "object", ev |-> ev] : ev \in MainEvents }

\* the runs of main: at a terminal with arguments, and with standard input
\* piped by Claude Code, where the .env file may make the start-up crash
MainRuns ==
    { [tty |-> TRUE, argv |-> argv, payload |-> [kind |-> "none"], env_crash |-> FALSE]
        : argv \in { <<>>, <<"execution_complete">>, <<"error", "hello">> } }
    \cup { [tty |-> FALSE, argv |-> <<>>, payload |-> payload, env_crash |-> env_crash]
             : payload \in Payloads, env_crash \in BOOLEAN }
    \cup { [tty |-> FALSE, argv |-> <<"error", "hello">>, payload |-> [kind |-> "invalid"],
            env_crash |-> FALSE] }

\* the categories and texts get_notification_sound is called with directly
SoundEventTypes == {"execution_complete", "error"}

SoundTexts == {"", "Task complete"}

\* a projects directory with both sessions recorded
BothRecorded == [s \in Sids |-> IF s = "s1" THEN "-code-app" ELSE "-code-my-app"]

\* installations: TTS switched off, no provider available, Kokoro writing
\* mp3 with and without pydub, Kokoro writing wav
NoTts == TtsConfig(FALSE, "none", "mp3", TRUE)

TtsConfigs ==
    { NoTts,
      TtsConfig(TRUE, "none", "mp3", TRUE),
      TtsConfig(TRUE, "kokoro", "mp3", TRUE),
      TtsConfig(TRUE, "kokoro", "mp3", FALSE),
      TtsConfig(TRUE, "kokoro", "wav", TRUE) }

\* the hook processes that may run at the same time
Procs == {"p1", "p2"}

\* a process slot before Claude Code starts a hook process in it
Idle == [pc |-> "idle"]

Snapshot == [cacheFile |-> cacheFile, replFile |-> replFile, soundsDir |-> soundsDir, now |-> now]

InitWith(caches, repls, dirs, configs) ==
    /\ cacheFile \in caches
    /\ replFile \in repls
    /\ projectsDir \in dirs
    /\ soundsDir = EmptyMap
    /\ tts \in configs
    /\ now = 0
    /\ pre = [cacheFile |-> cacheFile, replFile |-> replFile, soundsDir |-> EmptyMap, now |-> 0]
    /\ out = [op |-> "none"]
    /\ procs = [p \in Procs |-> Idle]

\* the program starts on documents it wrote itself
Init == InitWith(CacheSeeds, ReplSeeds, ProjectsDirs, TtsConfigs)

\* resolve_project_name does not read the TTS configuration
InitResolve == InitWith(CacheSeeds, ReplSeeds, ProjectsDirs, {NoTts})

\* the same, on persisted documents of any content
InitResolveAny ==
    InitWith(CacheSeeds \cup ForeignCacheSeeds, ReplSeeds \cup ForeignReplSeeds, ProjectsDirs, {NoTts})

\* the event classifier on an installation without TTS
InitClassify ==
    InitWith({MissingDoc}, {r \in ReplSeeds : r.kind # "corrupt"}, {BothRecorded}, {NoTts})

\* the same, on persisted documents of any content
InitClassifyAny ==
    InitWith(CacheSeeds \cup ForeignCacheSeeds, ReplSeeds \cup ForeignReplSeeds, {BothRecorded}, {NoTts})

\* the replacement engine on the documents an installation can hold
InitAlias == InitWith({MissingDoc}, ReplSeeds \cup CommandReplSeeds, {BothRecorded}, {NoTts})

\* overlapping hook processes on a fresh installation and on one with an
\* alias the user wrote
InitOverlap ==
    InitWith({MissingDoc}, {r \in ReplSeeds : r.kind # "corrupt"}, {BothRecorded}, {NoTts})

\* a fresh installation with the record of s1 in a folder of any project path
InitName ==
    InitWith({MissingDoc}, {ReplDoc("missing", EmptyMap, EmptyMap, EmptyMap, <<>>)},
             {[s \in {"s1"} |-> folder] : folder \in NameFolders}, {NoTts})

\* a fresh installation with any TTS configuration
InitTts ==
    InitWith({MissingDoc}, {ReplDoc("missing", EmptyMap, EmptyMap, EmptyMap, <<>>)},
             {BothRecorded}, TtsConfigs)

----------------------------------------------------------------------------
(* The operations *)

\* time passes between two invocations
Tick ==
    /\ \E t \in Times : t > now /\ now' = t
    /\ UNCHANGED <<cacheFile, replFile, projectsDir, soundsDir, tts, pre, out, procs>>

\* one call of resolve_project_name(session_id, cwd)
Resolve(session_id, cwd) ==
    \E r \in {resolve_project_name(cacheFile, replFile, projectsDir, session_id, cwd, now)} :
        /\ cacheFile' = r.cacheFile
        /\ replFile' = r.replFile
        /\ pre' = Snapshot
        /\ out' = [op |-> "resolve", session_id |-> session_id, cwd |-> cwd,
                   ret |-> r.ret, raised |-> r.raised, glob |-> r.glob,
                   auto |-> r.auto, saved |-> r.saved]
        /\ UNCHANGED <<projectsDir, soundsDir, tts, now, procs>>

\* how the backend fared in an operation: "none" when generate was not called
Backend(gen, outcome) == IF gen = 0 THEN "none" ELSE outcome

\* one call of get_notification_sound(event_type, custom_text) on a handler
LastSound ==
    IF out.op = "sound"
    THEN [op |-> "sound", event_type |-> out.event_type, custom_text |-> out.custom_text,
          ret |-> out.ret, gen |-> out.gen]
    ELSE [op |-> "none"]

GetSound(event_type, custom_text, outcome) ==
    \E r \in {get_notification_sound(tts, soundsDir, event_type, custom_text, outcome)} :
        /\ soundsDir' = r.soundsDir
        /\ pre' = Snapshot
        /\ out' = [op |-> "sound", event_type |-> event_type, custom_text |-> custom_text,
                   ret |-> r.ret, gen |-> r.gen, backend |-> Backend(r.gen, outcome),
                   prev |-> LastSound]
        /\ UNCHANGED <<cacheFile, replFile, projectsDir, tts, now, procs>>

\* one call of handle_hook(hook_data)
HandleHook(ev, outcome) ==
    \E h \in {handle_hook(ev, cacheFile, replFile, projectsDir, tts, soundsDir, now, outcome)} :
        /\ cacheFile' = h.cacheFile
        /\ replFile' = h.replFile
        /\ soundsDir' = h.soundsDir
        /\ pre' = Snapshot
        /\ out' = [op |-> "hook", ev |-> ev, raised |-> h.raised, returned |-> h.returned,
                   event_type |-> h.event_type, message |-> h.message,
                   custom_tts |-> h.custom_tts, display |-> h.display,
                   notify |-> h.notify, sound |-> h.sound, gen |-> h.gen,
                   backend |-> Backend(h.gen, outcome), play |-> h.play]
        /\ UNCHANGED <<projectsDir, tts, now, procs>>

\* one run of the process
Main(tty, argv, payload, env_crash, outcome) ==
    \E m \in {main(tty, argv, payload, env_crash, cacheFile, replFile, projectsDir, tts,
                   soundsDir, now, outcome)} :
        /\ cacheFile' = m.cacheFile
        /\ replFile' = m.replFile
        /\ soundsDir' = m.soundsDir
        /\ pre' = Snapshot
        /\ out' = [op |-> "main", tty |-> tty, argv |-> argv, payload |-> payload,
                   env_crash |-> env_crash, exit_code |-> m.exit_code,
                   notify |-> m.notify, sound |-> m.sound, gen |-> m.gen,
                   backend |-> Backend(m.gen, outcome), play |-> m.play]
        /\ UNCHANGED <<projectsDir, tts, now, procs>>

\* one call of apply_command_replacement(command, load_replacements())
ApplyCommandReplacement(command) ==
    /\ pre' = Snapshot
    /\ \E r \in {apply_command_replacement(command, load_replacements(replFile))} :
          out' = [op |-> "alias", command |-> command, raised |-> r.raised, ret |-> r.ret]
    /\ UNCHANGED <<cacheFile, replFile, projectsDir, soundsDir, tts, now, procs>>

NextAlias ==
    \E command \in Commands \cup {"", "GIT STATUS -s"} : ApplyCommandReplacement(command)

\* one call of decode_project_folder_name(folder_name)
Decode(folder_name) ==
    /\ pre' = Snapshot
    /\ out' = [op |-> "decode", folder_name |-> folder_name,
               ret |-> decode_project_folder_name(folder_name)]
    /\ UNCHANGED <<cacheFile, replFile, projectsDir, soundsDir, tts, now, procs>>

NextDecode ==
    \E folder_name \in FolderNamesUpTo(MaxFolderLen) : Decode(folder_name)

\* ---- handle_hook as separate processes, one step per file operation ----

\* open(path, 'w') empties the file, and json.dump fills it through a
\* buffer: until the write is complete the file does not parse
UnderWrite(doc) ==
    IF doc = "cache" THEN CorruptDoc ELSE ReplDoc("corrupt", EmptyMap, EmptyMap, EmptyMap, <<>>)

\* the other processes that have opened the document for writing
Saving(p, doc) ==
    {q \in Procs \ {p} : procs[q].pc = (IF doc = "cache" THEN "write_cache" ELSE "write_replacements")}

\* what a process found when it read a document
Observed(p, doc, saw) ==
    [op |-> "load", proc |-> p, doc |-> doc, saw |-> saw, saving |-> Saving(p, doc)]

\* the last complete documents that were on disk
LastComplete ==
    [pre EXCEPT !.cacheFile = IF cacheFile.kind = "dict" THEN cacheFile ELSE @,
                !.replFile = IF replFile.kind = "dict" THEN replFile ELSE @]

\* Claude Code starts a hook process for an event of a session
Start(p, session_id, cwd) ==
    /\ procs[p].pc = "idle"
    /\ procs' = [procs EXCEPT ![p] = [pc |-> "load_replacements", session_id |-> session_id, cwd |-> cwd]]
    /\ UNCHANGED <<cacheFile, replFile, projectsDir, soundsDir, tts, now, pre, out>>

\* line 586: replacements = load_replacements()
LoadReplacements(p) ==
    /\ procs[p].pc = "load_replacements"
    /\ out' = Observed(p, "replacements", replFile)
    /\ pre' = LastComplete
    /\ procs' = [procs EXCEPT ![p].pc = "load_cache"]
    /\ UNCHANGED <<cacheFile, replFile, projectsDir, soundsDir, tts, now>>

\* lines 317-376: the cache is read and the name resolved from what was read
LoadCache(p) ==
    /\ procs[p].pc = "load_cache"
    /\ \E r \in {resolve_project_name(cacheFile, replFile, projectsDir, procs[p].session_id,
                                      procs[p].cwd, now)} :
          procs' = [procs EXCEPT ![p] =
                      IF r.raised \/ ~r.saved
                      THEN Idle
                      ELSE [pc |-> "auto_add", session_id |-> procs[p].session_id,
                            cwd |-> procs[p].cwd, project_name |-> r.ret,
                            cache |-> r.cacheFile]]
    /\ out' = Observed(p, "cache", cacheFile)
    /\ pre' = LastComplete
    /\ UNCHANGED <<cacheFile, replFile, projectsDir, soundsDir, tts, now>>

\* lines 266-301: auto_add_project_to_replacements reads the document
AutoAddLoad(p) ==
    /\ procs[p].pc = "auto_add"
    /\ \E w \in {auto_add_project_to_replacements(replFile, procs[p].project_name,
                                                  projectsDir[procs[p].session_id])} :
          procs' = [procs EXCEPT ![p] =
                      IF w = replFile
                      THEN [pc |-> "open_cache", session_id |-> procs[p].session_id,
                            cache |-> procs[p].cache]
                      ELSE [pc |-> "open_replacements", session_id |-> procs[p].session_id,
                            cache |-> procs[p].cache, replacements |-> w]]
    /\ out' = Observed(p, "replacements", replFile)
    /\ pre' = LastComplete
    /\ UNCHANGED <<cacheFile, replFile, projectsDir, soundsDir, tts, now>>

\* line 305: open(REPLACEMENTS_FILE, 'w')
OpenReplacements(p) ==
    /\ procs[p].pc = "open_replacements"
    /\ replFile' = UnderWrite("replacements")
    /\ pre' = LastComplete
    /\ procs' = [procs EXCEPT ![p].pc = "write_replacements"]
    /\ UNCHANGED <<cacheFile, projectsDir, soundsDir, tts, now, out>>

\* line 306: json.dump and close
WriteReplacements(p) ==
    /\ procs[p].pc = "write_replacements"
    /\ replFile' = procs[p].replacements
    /\ pre' = LastComplete
    /\ procs' = [procs EXCEPT ![p] = [pc |-> "open_cache", session_id |-> procs[p].session_id,
                                      cache |-> procs[p].cache]]
    /\ UNCHANGED <<cacheFile, projectsDir, soundsDir, tts, now, out>>

\* line 218: open(CACHE_FILE, 'w')
OpenCache(p) ==
    /\ procs[p].pc = "open_cache"
    /\ cacheFile' = UnderWrite("cache")
    /\ pre' = LastComplete
    /\ procs' = [procs EXCEPT ![p].pc = "write_cache"]
    /\ UNCHANGED <<replFile, projectsDir, soundsDir, tts, now, out>>

\* lines 219-220: json.dump and close; the process then notifies and ends
WriteCache(p) ==
    /\ procs[p].pc = "write_cache"
    /\ cacheFile' = procs[p].cache
    /\ pre' = LastComplete
    /\ procs' = [procs EXCEPT ![p] = Idle]
    /\ UNCHANGED <<replFile, projectsDir, soundsDir, tts, now, out>>

NextOverlap ==
    \E p \in Procs :
        \/ \E session_id \in Sids, cwd \in {"/code/app", "/code/my-app"} : Start(p, session_id, cwd)
        \/ LoadReplacements(p)
        \/ LoadCache(p)
        \/ AutoAddLoad(p)
        \/ OpenReplacements(p)
        \/ WriteReplacements(p)
        \/ OpenCache(p)
        \/ WriteCache(p)

NextSound ==
    \E event_type \in SoundEventTypes, custom_text \in SoundTexts, outcome \in GenOutcomes :
        GetSound(event_type, custom_text, outcome)

NextSoundHealthy ==
    \E event_type \in SoundEventTypes, custom_text \in SoundTexts :
        GetSound(event_type, custom_text, "ok")

NextClassify ==
    \E ev \in ClassifyEvents : HandleHook(ev, "ok")

NextStop ==
    \E ev \in StopEvents : HandleHook(ev, "ok")

NextTts ==
    \E ev \in TtsEvents, outcome \in GenOutcomes : HandleHook(ev, outcome)

Next ==
    \E run \in MainRuns, outcome \in GenOutcomes :
        Main(run.tty, run.argv, run.payload, run.env_crash, outcome)

\* the program as it is run: one process per hook event
Spec == InitTts /\ [][Next]_vars

\* get_notification_sound called on its own
SpecSound == InitTts /\ [][NextSound]_vars

\* the same with a synthesis backend that never fails
SpecSoundHealthy == InitTts /\ [][NextSoundHealthy]_vars

\* hook processes that overlap, with no lock on the documents
SpecOverlap == InitOverlap /\ [][NextOverlap]_vars

\* decode_project_folder_name called on its own
SpecDecode == InitAlias /\ [][NextDecode]_vars

\* apply_command_replacement called on its own
SpecAlias == InitAlias /\ [][NextAlias]_vars

\* handle_hook on an installation without TTS
SpecClassify == InitClassify /\ [][NextClassify]_vars

\* the end of a task, whatever the persisted documents contain
SpecStopAny == InitClassifyAny /\ [][NextStop]_vars

\* handle_hook on an installation with any TTS configuration
SpecTts == InitTts /\ [][NextTts]_vars

NextResolve ==
    \/ Tick
    \/ \E session_id \in Sids, cwd \in Cwds : Resolve(session_id, cwd)

NextName ==
    \E cwd \in {"", "/code/a"} : Resolve("s1", cwd)

\* resolve_project_name on the session record of any project path
SpecName == InitName /\ [][NextName]_vars

\* resolve_project_name called on its own
SpecResolve == InitResolve /\ [][NextResolve]_vars

\* the same, whatever the persisted documents contain
SpecResolveAny == InitResolveAny /\ [][NextResolve]_vars

----------------------------------------------------------------------------
(* Claims about resolve_project_name *)

\* the directory a is b or one of the directories above b
AncestorOrEqual(a, b) ==
    LET pa == PathResolve(a)
        pb == PathResolve(b)
    IN  \E n \in 0..Len(pb) : pa = SubSeq(pb, 1, n)

\* the last operation was resolve_project_name with a cwd, and it started
\* from a cache document holding a mapping for the session
ResolvedWithEntry ==
    /\ out.op = "resolve"
    /\ out.cwd # ""
    /\ pre.cacheFile.kind = "dict"
    /\ out.session_id \in DOMAIN pre.cacheFile.d
    /\ pre.cacheFile.d[out.session_id].kind = "dict"
    /\ {"project_name", "project_path"} \subseteq DOMAIN pre.cacheFile.d[out.session_id].d

PreEntry == pre.cacheFile.d[out.session_id].d

PreEntryAge == pre.now - Get(PreEntry, "timestamp", 0)

C1_Case ==
    /\ ResolvedWithEntry
    /\ PreEntryAge < expiry_seconds
    /\ AncestorOrEqual(PreEntry.project_path, out.cwd)

\* C1: a call for a session whose cache entry is not expired and whose
\* project_path is the cwd or above it returns the cached project_name, and
\* makes no glob of the projects directory, no auto-discovery and no cache write
C1_CachedNameWithoutLookup ==
    C1_Case =>
        /\ ~out.raised
        /\ out.ret = PreEntry.project_name
        /\ ~out.glob /\ ~out.auto /\ ~out.saved
        /\ cacheFile = pre.cacheFile

\* the cached name is returned for a cwd strictly below the project, and
\* for the project directory itself, where a lookup would give another name
C1_Witness ==
    /\ C1_Case
    /\ out.ret = "renamed"
    /\ out.cwd = PreEntry.project_path
    /\ out.session_id \in DOMAIN projectsDir

C2_Case ==
    /\ ResolvedWithEntry
    /\ ~AncestorOrEqual(PreEntry.project_path, out.cwd)

\* C2: a call for a session whose cache entry has a project_path that is not
\* the cwd nor above it does not answer from the cache: it globs for the
\* session record and returns the name derived from it ("unknown" without a
\* decodable record), storing the recomputed entry
C2_StaleEntryRecomputed ==
    C2_Case =>
        /\ ~out.raised
        /\ out.glob
        /\ IF out.session_id \in DOMAIN projectsDir /\ StartsWith(projectsDir[out.session_id], "-")
           THEN /\ out.ret = project_name_from_path(
                                decode_project_folder_name(projectsDir[out.session_id]).path)
                /\ out.saved /\ out.auto
                /\ cacheFile.kind = "dict"
                /\ out.session_id \in DOMAIN cacheFile.d
                /\ cacheFile.d[out.session_id].d.project_name = out.ret
                /\ cacheFile.d[out.session_id].d.timestamp = pre.now
           ELSE out.ret = "unknown" /\ ~out.saved

\* a live entry named "renamed" is not trusted for a cwd outside its project
C2_Witness ==
    /\ C2_Case
    /\ PreEntryAge < expiry_seconds
    /\ PreEntry.project_name = "renamed"
    /\ out.ret = "app"

\* the cache as resolve_project_name holds it after lines 317-318
LoadPruneCycle == clean_old_cache_entries(load_project_cache(pre.cacheFile), pre.now).value.d

\* C3: after the load-prune cycle of a call at time now the cache holds no
\* entry older than 7 days and still holds every entry whose age is at most
\* 7 days
C3_PruneKeepsWindow ==
    (out.op = "resolve" /\ pre.cacheFile.kind = "dict") =>
        \A s \in DOMAIN pre.cacheFile.d :
            LET age == pre.now - Get(pre.cacheFile.d[s].d, "timestamp", 0)
            IN  /\ age > expiry_seconds => s \notin DOMAIN LoadPruneCycle
                /\ age <= expiry_seconds => s \in DOMAIN LoadPruneCycle

\* C4: resolve_project_name returns a non-empty string
C4_NeverEmpty ==
    out.op = "resolve" => (~out.raised /\ out.ret # "")

\* C5: resolve_project_name never raises, whatever the persisted project
\* cache contains
C5_NeverRaises ==
    out.op = "resolve" => ~out.raised

\* C6: two successive calls of get_notification_sound with the same event
\* category and the same text return the same path and call the backend's
\* generate at most once in total, and a call that finds the file of the
\* previous call present returns it without a synthesis call.
C6_SameCall ==
    /\ out.op = "sound"
    /\ out.prev.op = "sound"
    /\ out.prev.event_type = out.event_type
    /\ out.prev.custom_text = out.custom_text

C6_IdempotentSoundCache ==
    C6_SameCall =>
        /\ out.ret = out.prev.ret
        /\ out.prev.gen + out.gen <= 1
        /\ (out.prev.ret # "" /\ out.prev.ret \in DOMAIN pre.soundsDir) =>
               (out.gen = 0 /\ out.ret = out.prev.ret)

\* C7: handle_hook on a Stop event produces one notification of category
\* execution_complete, whatever the other fields of the event and whatever
\* the persisted documents hold.
C7_StopAlwaysNotifies ==
    (out.op = "hook" /\ out.ev.hook_type = "Stop") =>
        /\ ~out.raised
        /\ out.event_type = "execution_complete"
        /\ Len(out.notify) = 1

\* C8: a PreToolUse event of the Bash tool whose trimmed command starts with
\* a read-only prefix produces no notification, no synthesis and no
\* playback, also when the command holds a deny-list marker.
C8_ReadOnlyPrefixes == {"echo", "pwd", "ls", "cat", "head", "tail", "grep", "find", "which"}

C8_DenyMarkers == {"rm", "mv", "cp", "sudo", "chmod", "chown", ">", "curl", "wget"}

C8_Case ==
    /\ out.op = "hook"
    /\ out.ev.hook_type = "PreToolUse"
    /\ out.ev.tool_name = "Bash"
    /\ \E prefix \in C8_ReadOnlyPrefixes : StartsWith(Strip(out.ev.command), prefix)

C8_ReadOnlyCommandSilent ==
    C8_Case =>
        /\ ~out.raised
        /\ out.notify = <<>>
        /\ out.gen = 0
        /\ out.play = <<>>
        /\ soundsDir = pre.soundsDir

C8_Witness ==
    /\ C8_Case
    /\ \E marker \in C8_DenyMarkers : Contains(out.ev.command, marker)
    /\ tts.use_tts /\ tts.provider = "kokoro"
    /\ out.notify = <<>>
    /\ out.gen = 0

\* C9: a PreToolUse event of the Bash tool with the command "rm <name>",
\* <name> a file name that is no flag, is classified tool_activity with a
\* message containing "Running rm on <name>" and a TTS text containing
\* "removing <name>".
C9_PlainRmDescribed ==
    \A name \in RmNames :
        (/\ out.op = "hook"
         /\ out.ev.hook_type = "PreToolUse"
         /\ out.ev.tool_name = "Bash"
         /\ out.ev.command = "rm " \o name
         /\ ~out.raised) =>
            /\ out.event_type = "tool_activity"
            /\ Contains(out.message, "Running rm on " \o name)
            /\ Contains(out.custom_tts, "removing " \o name)

\* C10: when the text on standard input is not JSON, main exits with a
\* nonzero status and calls neither notify nor the player.
C10_Case ==
    /\ out.op = "main"
    /\ out.payload.kind = "invalid"

C10_InvalidJsonExitsSilently ==
    C10_Case =>
        /\ out.exit_code # 0
        /\ out.notify = <<>>
        /\ out.play = <<>>

C10_Witness ==
    /\ C10_Case
    /\ ~out.tty
    /\ ~out.env_crash
    /\ out.exit_code = 1
    /\ out.notify = <<>>

\* C11: when TTS is switched off, no backend is configured, or the synthesis
\* fails, an invocation that has an event to report gets no sound from
\* get_notification_sound, still makes its visual notification, plays no
\* audio and exits with status 0.
C11_Reporting ==
    /\ out.op = "main"
    /\ ~out.env_crash
    /\ \/ out.tty /\ Len(out.argv) > 0
       \/ /\ ~out.tty
          /\ out.payload.kind = "object"
          /\ classify(out.payload.ev, "p").event_type # ""

C11_NoAudio ==
    \/ ~tts.use_tts
    \/ tts.provider = "none"
    \/ out.backend \in {"fail", "fail_partial"}

C11_AudioFailureKeepsNotification ==
    (C11_Reporting /\ C11_NoAudio) =>
        /\ out.sound = ""
        /\ Len(out.notify) = 1
        /\ out.play = <<>>
        /\ out.exit_code = 0

C11_Witness ==
    /\ C11_Reporting
    /\ ~out.tty
    /\ tts.use_tts /\ tts.provider = "kokoro"
    /\ out.backend = "fail_partial"
    /\ Len(out.notify) = 1
    /\ out.play = <<>>
    /\ out.exit_code = 0

\* C12: every message classification produces for a notification starts with
\* the alias-applied project name in square brackets, and the text spoken for
\* it starts with that name as a clause, "<name>, ...".
C12_SpokenText ==
    IF out.custom_tts # "" THEN out.custom_tts
    ELSE IF out.event_type \in DOMAIN default_texts THEN default_texts[out.event_type]
    ELSE "Claude notification"

C12_ProjectPrefixEverywhere ==
    (out.op = "hook" /\ ~out.raised /\ out.event_type # "" /\ out.message # "") =>
        /\ StartsWith(out.message, "[" \o out.display \o "] ")
        /\ StartsWith(C12_SpokenText, out.display \o ", ")

\* C13: a PreCompact event always produces one notification of category
\* compaction and is visual only: it has no TTS text, no speech is synthesized
\* for it and no audio is played.
C13_CompactionVisualOnly ==
    (out.op = "hook" /\ out.ev.hook_type = "PreCompact") =>
        /\ ~out.raised
        /\ out.event_type = "compaction"
        /\ Len(out.notify) = 1
        /\ out.custom_tts = ""
        /\ out.gen = 0
        /\ out.play = <<>>

\* C14: a Notification event whose sub-type does not contain "error" is
\* classified input_needed; when its message matches "permission to use
\* <Tool>" the message and the TTS text name <Tool>, and any other message
\* the event carries is the message text shown, verbatim.
C14_Case ==
    /\ out.op = "hook"
    /\ ~out.raised
    /\ out.ev.hook_type = "Notification"
    /\ ~Contains(Lower(out.ev.notification_type), "error")
    /\ out.ev.has_message
    /\ out.ev.message # ""

C14_PermissionOrVerbatim ==
    C14_Case =>
        /\ out.event_type = "input_needed"
        /\ Len(out.notify) = 1
        /\ IF permission_tool(out.ev.message) # ""
           THEN /\ Contains(out.message, permission_tool(out.ev.message))
                /\ Contains(out.custom_tts, permission_tool(out.ev.message))
           ELSE out.notify[1].message = out.ev.message

\* C15: apply_command_replacement applied to "rm -rf /tmp/foo" gives a phrase
\* of the "force removing foo" style.
C15_ForceRemovingPhrase ==
    (out.op = "alias" /\ out.command = "rm -rf /tmp/foo") =>
        /\ Contains(out.ret, "force removing")
        /\ Contains(out.ret, "foo")

\* C16: a folder name that starts with the marker "-" decodes to an absolute
\* path, and writing every "/" of that path as the marker gives the folder
\* name back; a folder name without the leading marker does not decode.
C16_Encode(path) == Replace(path, "/", "-")

C16_FolderRoundTrip ==
    (out.op = "decode") =>
        IF StartsWith(out.folder_name, "-")
        THEN /\ out.ret.ok
             /\ StartsWith(out.ret.path, "/")
             /\ C16_Encode(out.ret.path) = out.folder_name
        ELSE ~out.ret.ok

C16_Witness ==
    /\ out.op = "decode"
    /\ out.folder_name = "-a-b"
    /\ out.ret.ok
    /\ out.ret.path = "/a/b"

\* C17: with hook processes overlapping, a process that reads the project
\* cache or the replacement document while another process is saving it
\* finds a complete document, never an empty or partly written one.
C17_NoTornRead ==
    (out.op = "load" /\ out.saving # {}) => out.saw.kind = "dict"

\* C18: the replacement document is only appended to: every project-name
\* alias, command alias and pattern of the last complete document on disk is
\* in the document now on disk, with the same value.
C18_AppendOnly ==
    (pre.replFile.kind = "dict" /\ replFile.kind = "dict") =>
        /\ \A k \in DOMAIN pre.replFile.names :
               k \in DOMAIN replFile.names /\ replFile.names[k] = pre.replFile.names[k]
        /\ \A k \in DOMAIN pre.replFile.commands :
               k \in DOMAIN replFile.commands /\ replFile.commands[k] = pre.replFile.commands[k]
        /\ \A i \in 1..Len(pre.replFile.patterns) :
               \E j \in 1..Len(replFile.patterns) : replFile.patterns[j] = pre.replFile.patterns[i]

\* C19: one invocation of handle_hook makes at most one visual-notification
\* call and at most one playback call, and a playback call only together
\* with the notification call.
C19_AtMostOneOfEach ==
    (out.op = "hook") =>
        /\ Len(out.notify) <= 1
        /\ Len(out.play) <= 1
        /\ (Len(out.play) = 1 => Len(out.notify) = 1)

C19_Witness ==
    /\ out.op = "hook"
    /\ Len(out.notify) = 1
    /\ Len(out.play) = 1
    /\ out.play[1] \in DOMAIN soundsDir

\* C20: a PreToolUse event of the Bash tool whose command does not start with
\* an allow-list prefix produces a tool_activity notification exactly when
\* the command contains a deny-list marker; any other command produces
\* nothing.
C20_Case ==
    /\ out.op = "hook"
    /\ out.ev.hook_type = "PreToolUse"
    /\ out.ev.tool_name = "Bash"
    /\ ~\E prefix \in C8_ReadOnlyPrefixes : StartsWith(Strip(out.ev.command), prefix)

C20_HasMarker == \E marker \in C8_DenyMarkers : Contains(out.ev.command, marker)

C20_NotifiedIffDenyMarker ==
    C20_Case =>
        IF C20_HasMarker
        THEN Len(out.notify) = 1 /\ out.event_type = "tool_activity"
        ELSE out.notify = <<>> /\ out.event_type = "" /\ out.gen = 0 /\ out.play = <<>>

C20_Witness ==
    /\ C20_Case
    /\ out.ev.command = "make > out"
    /\ Len(out.notify) = 1
    /\ out.event_type = "tool_activity"

----------------------------------------------------------------------------
(* Claims about tool responses, targets and the name table *)

C21_Case == out.op = "hook" /\ out.ev.hook_type = "PostToolUse"

C21_ErrorIndicator ==
    /\ out.ev.tool_response.kind = "dict"
    /\ \/ "error" \in DOMAIN out.ev.tool_response.d
       \/ /\ "type" \in DOMAIN out.ev.tool_response.d
          /\ out.ev.tool_response.d["type"] = "error"

C21_Lead == "Error in " \o out.ev.tool_name \o ": "

\* C21: a PostToolUse event is notified exactly when the tool response is a
\* mapping with type "error" or with an error key; the notification has
\* category error and an error excerpt of at most 100 characters.  Any other
\* response produces no notification.
C21_NotifiedIffErrorIndicator ==
    C21_Case =>
        IF C21_ErrorIndicator
        THEN /\ Len(out.notify) = 1
             /\ out.event_type = "error"
             /\ StartsWith(out.notify[1].message, C21_Lead)
             /\ Len(out.notify[1].message) <= Len(C21_Lead) + 100
        ELSE out.notify = <<>> /\ out.event_type = "" /\ out.play = <<>>

C21_Witness ==
    /\ C21_Case
    /\ out.ev.tool_response = Dict([error |-> LongError])
    /\ Len(out.notify) = 1
    /\ out.notify[1].message = C21_Lead \o SubSeq(LongError, 1, 100)

C22_Case ==
    /\ out.op = "hook"
    /\ out.ev.hook_type = "PreToolUse"
    /\ out.ev.tool_name = "Bash"
    /\ out.event_type = "tool_activity"
    /\ Len(out.notify) = 1

C22_Parts == SplitWs(out.ev.command)

C22_NonFlags == {i \in 2..Len(C22_Parts) : ~StartsWith(C22_Parts[i], "-")}

\* the last path segment of the first argument that is no flag; "" without one
C22_Expected ==
    IF C22_NonFlags = {} THEN ""
    ELSE PathName(C22_Parts[CHOOSE i \in C22_NonFlags : \A j \in C22_NonFlags : i <= j])

C22_EndsWith(s, suffix) ==
    Len(s) >= Len(suffix) /\ SubSeq(s, Len(s) - Len(suffix) + 1, Len(s)) = suffix

\* C22: when a dangerous shell command is reported, the target named in the
\* message and in the TTS text is the last path segment of the first non-flag
\* argument, whatever the number and order of flags and arguments, and a flag
\* is never named as the target.
C22_TargetIsFirstNonFlag ==
    C22_Case =>
        /\ out.notify[1].message =
              IF C22_Expected # ""
              THEN "Running " \o C22_Parts[1] \o " on " \o C22_Expected
              ELSE "Running " \o C22_Parts[1]
        /\ (C22_Parts[1] \in {"rm", "mv", "cp", "chmod", "chown"} /\ C22_Expected # "")
              => C22_EndsWith(out.custom_tts, " " \o C22_Expected)
        /\ \A i \in 2..Len(C22_Parts) :
              StartsWith(C22_Parts[i], "-") => ~C22_EndsWith(out.notify[1].message, " on " \o C22_Parts[i])

\* a resolve that derived the name it returned from a session record
C23_Case == out.op = "resolve" /\ ~out.raised /\ out.glob /\ out.saved

\* the keys of the name table that match the name without letter case
C23_Matching(doc) ==
    IF doc.kind = "dict" THEN {key \in DOMAIN doc.names : Lower(key) = Lower(out.ret)} ELSE {}

\* C23: after a resolve that derives project name N from a session record the
\* persisted name table has a key matching N case-insensitively.  If there
\* was none before, N is inserted with the alias N with hyphens replaced by
\* spaces and recorded in the auto-discovered section; if there was one, the
\* persisted document is unchanged.
C23_AutoDiscovery ==
    C23_Case =>
        /\ C23_Matching(replFile) # {}
        /\ IF C23_Matching(pre.replFile) = {}
           THEN /\ out.ret \in DOMAIN replFile.names
                /\ replFile.names[out.ret] = Replace(out.ret, "-", " ")
                /\ out.ret \in DOMAIN replFile.auto
                /\ out.ret \notin DOMAIN load_replacements(pre.replFile).auto
                /\ \A key \in DOMAIN load_replacements(pre.replFile).names :
                      key \in DOMAIN replFile.names
                      /\ replFile.names[key] = load_replacements(pre.replFile).names[key]
           ELSE replFile = pre.replFile

C23_Witness ==
    /\ C23_Case
    /\ out.ret = "my-app"
    /\ C23_Matching(pre.replFile) = {}
    /\ "App" \in DOMAIN pre.replFile.names
    /\ replFile.names["my-app"] = "my app"
    /\ "my-app" \in DOMAIN replFile.auto

C24_Patterns == load_replacements(replFile).patterns

\* the configured patterns that match the command
C24_Matching ==
    {i \in 1..Len(C24_Patterns) :
        /\ C24_Patterns[i].pattern # ""
        /\ C24_Patterns[i].replacement # ""
        /\ re_compile(C24_Patterns[i].pattern, 1).ok
        /\ re_search(re_compile(C24_Patterns[i].pattern, 1).tokens, out.command).ok}

C24_First == CHOOSE i \in C24_Matching : \A j \in C24_Matching : i <= j

\* C24: apply_command_replacement returns a string for every command and
\* every configuration: the template of the first matching pattern in
\* declaration order with $1, $2, ... replaced by the captured texts; without
\* a matching pattern the entry of the first token in the command table; and
\* without one "running <first token>", or "running command" for a command
\* without token.
C24_PatternsThenTableThenFallback ==
    (out.op = "alias") =>
        /\ ~out.raised
        /\ out.ret =
              IF C24_Matching # {}
              THEN substitute_groups(C24_Patterns[C24_First].replacement,
                       re_search(re_compile(C24_Patterns[C24_First].pattern, 1).tokens, out.command).groups, 1)
              ELSE IF SplitWs(out.command) = <<>> THEN "running command"
              ELSE IF SplitWs(out.command)[1] \in DOMAIN load_replacements(replFile).commands
              THEN load_replacements(replFile).commands[SplitWs(out.command)[1]]
              ELSE "running " \o SplitWs(out.command)[1]

\* a resolve of s1 that derived the name from the session record
C25_Case == out.op = "resolve" /\ out.session_id = "s1" /\ ~out.raised /\ out.saved

\* the segments of the decoded path
C25_Segments == PathSegments(decode_project_folder_name(projectsDir["s1"]).path)

C25_Containers ==
    {i \in 1..Len(C25_Segments) :
        C25_Segments[i] \in {"code", "projects", "dev", "work", "repos", "src", "Documents", "Desktop"}}

C25_Last == IF C25_Segments = <<>> THEN "" ELSE C25_Segments[Len(C25_Segments)]

\* the name built from the segments after the i-th fits the returned one
C25_BuiltAfter(i) ==
    LET n == Len(C25_Segments) - i
    IN  \/ n = 1 /\ out.ret = C25_Segments[i + 1]
        \/ n = 2 /\ out.ret = C25_Segments[i + 1] \o "-" \o C25_Segments[i + 2]
        \/ n > 2 /\ out.ret = C25_Last

\* C25 as stated: without a container segment the name is the last segment;
\* with one the name is built from the segments after it (one: that segment,
\* two: hyphen-joined, more: the final segment), whichever container segment
\* matches, also when the container is the last segment.
C25_NameFromContainer ==
    C25_Case =>
        IF C25_Containers = {} THEN out.ret = C25_Last
        ELSE \E i \in C25_Containers : C25_BuiltAfter(i)

\* the container segments that have a segment after them
C25_Parents == {i \in C25_Containers : i < Len(C25_Segments)}

\* C25 amended: a container name in last position is no container match.
\* Without a container segment that has a segment after it the name is the
\* last segment; otherwise the name is built from the segments after the
\* first such container segment.
C25_NameFromFirstParent ==
    C25_Case =>
        IF C25_Parents = {} THEN out.ret = C25_Last
        ELSE C25_BuiltAfter(CHOOSE i \in C25_Parents : \A j \in C25_Parents : i <= j)

C25_Witness ==
    /\ C25_Case
    /\ projectsDir["s1"] = "-src-a-code"
    /\ out.ret = "a-code"

----------------------------------------------------------------------------
(* Claims about error notifications, the display name and the caches *)

C26_Case ==
    /\ out.op = "hook"
    /\ out.ev.hook_type = "Notification"
    /\ Contains(Lower(out.ev.notification_type), "error")
    /\ out.ev.has_message

\* C26: a Notification event whose sub-type contains "error" in any letter
\* case emits a notification of category error whose text is the raw message
\* of the event, whatever the message is, the empty one and one that holds
\* "] " included.
C26_ErrorShowsRawMessage ==
    C26_Case =>
        /\ Len(out.notify) = 1
        /\ out.event_type = "error"
        /\ out.notify[1].message = out.ev.message

\* two calls of handle_hook in a row for the same session in the same
\* directory; no step of the specification edits the replacement document
C27_Consecutive ==
    /\ out.op = "hook" /\ ~out.raised
    /\ out'.op = "hook" /\ ~out'.raised
    /\ out'.ev.session_id = out.ev.session_id
    /\ out'.ev.cwd = out.ev.cwd

\* C27: two consecutive events of the same session in the same project are
\* handled with the same display project name, also when the first of them
\* is the one that auto-discovers the project.
C27_StableDisplayName ==
    [][C27_Consecutive => out'.display = out.display]_vars

\* a resolve that was answered from the cache
C28_Case == out.op = "resolve" /\ ~out.raised /\ ~out.glob

\* C28: a resolve that is answered from the cache changes nothing on disk:
\* the project cache, with the timestamp of the entry that was hit and the
\* expired entries still in the file, and the replacement document are as
\* before, so the entry is answered from only within 7 days of the time it
\* was written.
C28_HitWritesNothing ==
    C28_Case =>
        /\ cacheFile = pre.cacheFile
        /\ replFile = pre.replFile
        /\ ~out.saved /\ ~out.auto
        /\ out.session_id \in DOMAIN cacheFile.d
        /\ pre.now - Get(cacheFile.d[out.session_id].d, "timestamp", 0) < expiry_seconds

\* a hit while the file still holds an expired entry of another session
C28_Witness ==
    /\ C28_Case
    /\ \E s \in DOMAIN cacheFile.d :
          /\ s # out.session_id
          /\ pre.now - Get(cacheFile.d[s].d, "timestamp", 0) >= expiry_seconds
    /\ Get(cacheFile.d[out.session_id].d, "timestamp", 0) > 0

\* a call of get_notification_sound that returned a file without synthesis
C29_Hit == out.op = "sound" /\ out.ret # "" /\ out.gen = 0

\* the call before was for the same category and text and its synthesis failed
C29_AfterFailure ==
    /\ out.op = "sound"
    /\ out.prev.op = "sound"
    /\ out.prev.event_type = out.event_type
    /\ out.prev.custom_text = out.custom_text
    /\ out.prev.gen = 1
    /\ out.prev.ret = ""

\* C29: a sound file is served as a cache hit only if a synthesis for the
\* same provider, category and text succeeded before (the file holds the
\* audio of a successful synthesis); after a synthesis that failed, the next
\* call for the same category and text does not return the leftover file
\* without calling synthesis again.
C29_HitOnlyAfterSuccess ==
    /\ C29_Hit => (out.ret \in DOMAIN soundsDir /\ soundsDir[out.ret] = "audio")
    /\ C29_AfterFailure => ~C29_Hit

\* a resolve recomputed and persisted an entry, and the next call (a step
\* that is no passing of time) is for the same session and cwd while that
\* entry is within the expiry window
C30_Repeated ==
    /\ out.op = "resolve" /\ ~out.raised /\ out.saved
    /\ out'.op = "resolve"
    /\ out'.session_id = out.session_id
    /\ out'.cwd = out.cwd
    /\ now' = now
    /\ projectsDir' = projectsDir
    /\ cacheFile.kind = "dict"
    /\ out.session_id \in DOMAIN cacheFile.d
    /\ now - cacheFile.d[out.session_id].d.timestamp < expiry_seconds

\* C30: after resolve_project_name recomputed and persisted the entry of a
\* session with a given cwd, the next call with the same session id and cwd
\* within the expiry window is answered from the cache, without another
\* session-record lookup or cache write.
C30_RecomputationConverges ==
    [][C30_Repeated => (~out'.raised /\ ~out'.glob /\ ~out'.saved /\ out'.ret = out.ret)]_vars

====
